---- MODULE Spec2Model ----
(***************************************************************************)
(* Model of the data cache / fetch engine (DataEngine), the indicator      *)
(* engine (IndicatorEngine, calc_rsi) and the two timer callbacks of       *)
(* SeohyunDashboard that drive them, from src/dashboard_v2.py.             *)
(*                                                                         *)
(* Python floats are modelled as exact rationals <<num, den>>; rounding    *)
(* and the non-finite floats (inf, nan) are not modelled.  Wall-clock      *)
(* time is a counter that advances by one for every blocking network       *)
(* request.                                                                *)
(***************************************************************************)
EXTENDS Integers, Sequences, FiniteSets, TLC

\* ------------------------------------------------------------------------
\* Bounds of the model
\* ------------------------------------------------------------------------
\* number of network requests after which the model stops refreshing
MaxClock == 3
\* number of refresh cycles after which the dashboard's refresh timer stops
MaxCycles == 2
\* longest closes sequence handed to calc_rsi directly
MaxCloses == 4
\* largest period argument tried besides the defaults
MaxPeriod == 3
\* longest provider response enumerated bar by bar
MaxBars == 3
\* most closes that differ from the base price in a long response
MaxBumps == 2
\* longest timeframe identifier whose endpoint is resolved
MaxTfLen == 3
\* number of network requests after which the model stops refreshing where
\* refresh_all is called for every instrument
MaxFrameClock == 2

\* ------------------------------------------------------------------------
\* Configuration (DashboardConfig)
\* ------------------------------------------------------------------------
\* cfg.symbols: the instruments of the symbol combobox
Markets == {"KRW-BTC", "KRW-ETH"}
\* cfg.symbols[0], the initial selection
Market0 == "KRW-BTC"
\* the instruments handed to refresh_all where the engine is driven directly
EngineMarkets == {Market0}
\* cfg.timeframes: one minute timeframe and one that resolves to /days
CfgTimeframes == <<"1", "D">>
\* the timeframe lists handed to refresh_all
TfLists == {<< >>, <<"1">>, <<"D">>, <<"1", "D">>, <<"1", "1">>}

Range(s) == {s[i] : i \in DOMAIN s}
Timeframes == Range(CfgTimeframes)
Keys == Markets \X Timeframes

\* Python None where a string is expected (fetch_error)
NoneStr == "None"
\* Optional value: << >> is None, <<x>> is x
None == << >>
Some(x) == <<x>>

Reverse(s) == [i \in 1..Len(s) |-> s[Len(s) + 1 - i]]

\* ------------------------------------------------------------------------
\* External values of the provider's JSON
\* ------------------------------------------------------------------------
\* a JSON value found under "trade_price"
Num(n)  == [t |-> "num", v |-> n]     \* a JSON number
NumStr(n) == [t |-> "str", v |-> n]   \* a string that float() parses to n
BadStr  == [t |-> "bad", v |-> 0]     \* '' or a string float() rejects
Null    == [t |-> "none", v |-> 0]    \* JSON null, or the key is missing
Huge    == [t |-> "huge", v |-> 0]    \* a JSON integer beyond the float range
Bool(b) == [t |-> "bool", v |-> IF b THEN 1 ELSE 0]   \* JSON true / false
ListVal == [t |-> "list", v |-> 0]    \* a JSON array
DictVal == [t |-> "dict", v |-> 0]    \* a JSON object
\* one element of the JSON array: a JSON object carrying trade_price
Bar(val) == [dict |-> TRUE, trade_price |-> val]
\* one element of the JSON array that is not an object (a string, a number)
NonRecordBar == [dict |-> FALSE, trade_price |-> Null]

\* The provider's responses (newest first) the model draws from: an empty
\* array, and sixteen bars of which one has a close that does not coerce
\* and one a close given as a string (oldest first the valid closes are
\* thirteen times 100, then 102, then 101)
RespEmpty == << >>
RespLong  == [i \in 1..16 |->
                IF i = 1 THEN Bar(Num(101))
                ELSE IF i = 2 THEN Bar(Num(102))
                ELSE IF i = 3 THEN Bar(BadStr)
                ELSE IF i = 4 THEN Bar(NumStr(100))
                ELSE Bar(Num(100))]
Responses == {RespEmpty, RespLong}

\* Outcome of the one HTTP request a fetch issues
FailureKinds == {"transport", "protocol", "decode", "shape"}
Outcomes ==
    {[kind |-> "ok", data |-> d] : d \in Responses}
    \cup {[kind |-> k, data |-> << >>] : k \in FailureKinds}
    \cup {[kind |-> "raise", data |-> << >>]}

\* the text of an exception that escapes the fetcher: f"{type(e).__name__}: {e}"
RaisedText == "RuntimeError: boom"

VARIABLES
    cache,            \* DataEngine._cache: dict (market, tf) -> entry
    now,              \* the wall clock read by datetime.now()
    var_symbol,       \* selected instrument
    var_tf,           \* selected timeframe
    var_data_status,  \* status text the UI tick derived last
    var_rsi_value,    \* RSI label
    var_rsi_status,   \* RSI zone label
    rsi_bar,          \* value of the RSI gauge
    got,              \* what the last DataEngine.get call returned
    hist,             \* per key: the most recent fetch and what preceded it
    seen,             \* per key and outcome: what the first such fetch returned
    listed,           \* keys some refresh_all call has listed so far
    lastCall,         \* the most recent refresh_all call
    inp,              \* arguments handed to the indicator functions
    ret,              \* what the last indicator function call returned
    pc,               \* where a refresh_all call in progress stands
    frame,            \* the locals of that call
    events,           \* the requests and writes of that call, in order
    loop              \* the Tk event loop: pending timers, running callback

ui == <<var_data_status, var_rsi_value, var_rsi_status, rsi_bar>>

ghost == <<hist, seen, listed, lastCall>>

calls == <<inp, ret>>

steps == <<pc, frame, events>>

vars == <<cache, now, var_symbol, var_tf, ui, got, ghost, calls, steps, loop>>

\* ------------------------------------------------------------------------
\* DataEngine
\* ------------------------------------------------------------------------
\* dict.get(key) -> value or None
DictGet(c, k) == IF k \in DOMAIN c THEN Some(c[k]) ELSE None

\* mutant: the assignment replaces the dict by one holding only the new key
DictPut_Replaces(c, k, e) == [x \in {k} |-> e]

\* dict[key] = value
DictPut(c, k, e) == [x \in (DOMAIN c) \cup {k} |-> IF x = k THEN e ELSE c[x]]

\* Timeframe identifiers whose spelling matters are sequences of
\* one-character strings over this alphabet
TfAlphabet == {"0", "1", "2", "3", "4", "5", "6", " ", "d", "D"}
Whitespace == {" "}

\* str.upper(), character by character
UpperChar(ch) == IF ch = "d" THEN "D" ELSE ch
Upper(t) == [i \in 1..Len(t) |-> UpperChar(t[i])]

\* mutant: surrounding whitespace is kept
Strip_Keeps(t) == t

\* str.strip(): the text between the first and the last character that is
\* not whitespace
Strip(t) ==
    LET inner == {i \in 1..Len(t) : t[i] \notin Whitespace} IN
    IF inner = {} THEN << >>
    ELSE LET a == CHOOSE i \in inner : \A j \in inner : i <= j
             b == CHOOSE i \in inner : \A j \in inner : j <= i
         IN  SubSeq(t, a, b)

\* {"1", "3", "5", "10", "15", "30", "60", "240"}
MinuteSet ==
    {<<"1">>, <<"3">>, <<"5">>, <<"1", "0">>, <<"1", "5">>, <<"3", "0">>,
     <<"6", "0">>, <<"2", "4", "0">>}

\* int(tf_str) of a string of decimal digits
DigitVal(ch) ==
    CASE ch = "0" -> 0 [] ch = "1" -> 1 [] ch = "2" -> 2 [] ch = "3" -> 3
      [] ch = "4" -> 4 [] ch = "5" -> 5 [] ch = "6" -> 6
RECURSIVE ToInt(_)
ToInt(t) ==
    IF t = << >> THEN 0
    ELSE 10 * ToInt(SubSeq(t, 1, Len(t) - 1)) + DigitVal(t[Len(t)])

\* _fetch_candles_from_api, the endpoint the request goes to
ResolveUrl(tf) ==
    LET tf_str == Strip(Upper(tf)) IN
    IF tf_str \in MinuteSet
    THEN [endpoint |-> "minutes", m |-> ToInt(tf_str), tf_str |-> tf_str]
    ELSE [endpoint |-> "days", m |-> 0, tf_str |-> tf_str]

\* mutant: the fallback reverses the cached bars like a fresh response
CachedCandles_ReversedAgain(c, market, tf) ==
    IF <<market, tf>> \in DOMAIN c
    THEN Reverse(c[<<market, tf>>].candles) ELSE << >>

\* mutant: the fallback never reads the cache
CachedCandles_Stateless(c, market, tf) == << >>

\* mutant: the fallback reads the entry of the first configured timeframe
CachedCandles_OtherKey(c, market, tf) ==
    IF <<market, CfgTimeframes[1]>> \in DOMAIN c
    THEN c[<<market, CfgTimeframes[1]>>].candles ELSE << >>

\* self._cache.get((market, tf), {}).get("candles", [])
CachedCandles(c, market, tf) ==
    IF <<market, tf>> \in DOMAIN c THEN c[<<market, tf>>].candles ELSE << >>

\* DataEngine._fetch_candles_from_api: what the call hands to its caller
FetchCandles(c, market, tf, out) ==
    CASE out.kind = "raise" ->
           [raised |-> TRUE, candles |-> << >>, error |-> RaisedText]
      [] out.kind = "transport" ->
           [raised |-> FALSE, candles |-> CachedCandles(c, market, tf),
            error |-> NoneStr]
      [] out.kind = "protocol" ->
           [raised |-> FALSE, candles |-> CachedCandles(c, market, tf),
            error |-> NoneStr]
      [] out.kind = "decode" ->
           [raised |-> FALSE, candles |-> CachedCandles(c, market, tf),
            error |-> NoneStr]
      [] out.kind = "shape" ->
           [raised |-> FALSE, candles |-> CachedCandles(c, market, tf),
            error |-> NoneStr]
      [] OTHER ->
           [raised |-> FALSE, candles |-> Reverse(out.data), error |-> NoneStr]

\* mutant: no try/except, an exception of the fetcher leaves refresh_all
TryFetch_NoCatch(c, market, tf, out) ==
    LET r == FetchCandles(c, market, tf, out) IN
    [propagated |-> r.raised, result |-> r, candles |-> r.candles,
     fetch_ok |-> TRUE, fetch_error |-> NoneStr]

\* mutant: the except branch records the failure next to the cached bars
TryFetch_FailedWithBars(c, market, tf, out) ==
    LET r == FetchCandles(c, market, tf, out) IN
    IF r.raised
    THEN [propagated |-> FALSE, result |-> r,
          candles |-> CachedCandles(c, market, tf),
          fetch_ok |-> FALSE, fetch_error |-> r.error]
    ELSE [propagated |-> FALSE, result |-> r, candles |-> r.candles,
          fetch_ok |-> TRUE, fetch_error |-> NoneStr]

\* refresh_all, the try/except around the fetch of one timeframe
TryFetch(c, market, tf, out) ==
    LET r == FetchCandles(c, market, tf, out) IN
    IF r.raised
    THEN [propagated |-> FALSE, result |-> r, candles |-> << >>,
          fetch_ok |-> FALSE, fetch_error |-> r.error]
    ELSE [propagated |-> FALSE, result |-> r, candles |-> r.candles,
          fetch_ok |-> TRUE, fetch_error |-> NoneStr]

\* mutant: the fetched candles are not stored
MakeEntry_DropsCandles(r, t) ==
    [candles |-> << >>, last_refresh |-> t,
     fetch_ok |-> r.fetch_ok, fetch_error |-> r.fetch_error]

\* refresh_all, the entry written for one timeframe at time t
MakeEntry(r, t) ==
    [candles |-> r.candles, last_refresh |-> t,
     fetch_ok |-> r.fetch_ok, fetch_error |-> r.fetch_error]

\* bookkeeping of the most recent fetch of a key (not program state):
\* its outcome, what the fetcher returned, the entry the key held before,
\* the outcome before, and the entry written by the last successful fetch
\* as long as only failures of the four kinds have followed it
HistEntry(st, k, out, r, e) ==
    LET old == DictGet(st.hist, k) IN
    [kind |-> out.kind, data |-> out.data, result |-> r.result,
     at |-> st.now + 1,
     prev |-> DictGet(st.cache, k),
     prevKind |-> IF old = None THEN "none" ELSE old[1].kind,
     good |-> IF out.kind = "ok" THEN Some(e)
              ELSE IF out.kind \in FailureKinds /\ old # None THEN old[1].good
              ELSE None]

\* bookkeeping: what the first fetch with a given key and outcome returned
SeenPut(seen0, market, tf, out, r) ==
    LET o == <<market, tf, out.kind, out.data>> IN
    IF o \in DOMAIN seen0 THEN seen0 ELSE DictPut(seen0, o, r.result)

\* refresh_all, one iteration of `for tf in tfs`
RefreshStep(st, market, tf, out) ==
    LET k == <<market, tf>>
        r == TryFetch(st.cache, market, tf, out)
        t == st.now + 1
        e == MakeEntry(r, t)
    IN  IF r.propagated
        THEN [st EXCEPT !.now = t, !.raised = TRUE]
        ELSE [cache |-> DictPut(st.cache, k, e),
              now |-> t,
              hist |-> DictPut(st.hist, k, HistEntry(st, k, out, r, e)),
              seen |-> SeenPut(st.seen, market, tf, out, r),
              raised |-> FALSE]

\* refresh_all, the loop over tfs; outs[i] is the outcome of the i-th request
RECURSIVE RefreshLoop(_, _, _, _)
RefreshLoop(st, market, tfs, outs) ==
    IF tfs = << >> \/ st.raised THEN st
    ELSE RefreshLoop(RefreshStep(st, market, Head(tfs), Head(outs)),
                     market, Tail(tfs), Tail(outs))

OutcomeSeqs(n) == [1..n -> Outcomes]

\* no get call has returned since the last refresh
NoGot == [called |-> FALSE, market |-> Market0, tf |-> CfgTimeframes[1],
          result |-> None]

\* DataEngine.refresh_all(market, tfs)
RefreshAllCall(market, tfs, outs) ==
    LET st0 == [cache |-> cache, now |-> now, hist |-> hist, seen |-> seen,
                raised |-> FALSE]
        st  == RefreshLoop(st0, market, tfs, outs)
    IN  /\ cache' = st.cache
        /\ now' = st.now
        /\ hist' = st.hist
        /\ seen' = st.seen
        /\ listed' = listed \cup {<<market, tfs[i]>> : i \in DOMAIN tfs}
        /\ got' = NoGot
        /\ lastCall' = [called |-> TRUE, market |-> market, tfs |-> tfs,
                        start |-> now, raised |-> st.raised]

refresh_all ==
    \E market \in EngineMarkets, tfs \in TfLists :
        \E outs \in OutcomeSeqs(Len(tfs)) :
            /\ now + Len(tfs) <= MaxClock
            /\ RefreshAllCall(market, tfs, outs)
            /\ UNCHANGED <<var_symbol, var_tf, ui, calls, steps, loop>>

\* DataEngine.refresh_all called for any instrument of the configuration
refresh_all_markets ==
    \E market \in Markets, tfs \in TfLists :
        \E outs \in OutcomeSeqs(Len(tfs)) :
            /\ now + Len(tfs) <= MaxFrameClock
            /\ RefreshAllCall(market, tfs, outs)
            /\ UNCHANGED <<var_symbol, var_tf, ui, calls, steps, loop>>

\* SeohyunDashboard._start_data_refresh_loop: the 3 s timer callback
StartDataRefreshLoop ==
    \E outs \in OutcomeSeqs(Len(CfgTimeframes)) :
        /\ now + Len(CfgTimeframes) <= MaxCycles * Len(CfgTimeframes)
        /\ RefreshAllCall(var_symbol, CfgTimeframes, outs)
        /\ UNCHANGED <<var_symbol, var_tf, ui, calls, steps, loop>>

\* mutant: the lookup ignores the timeframe
DataEngineGet_IgnoresTf(c, market, tf) == DictGet(c, <<market, CfgTimeframes[1]>>)

\* DataEngine.get(market, tf)
DataEngineGet(c, market, tf) == DictGet(c, <<market, tf>>)

get ==
    \E market \in Markets, tf \in Timeframes :
        /\ got' = [called |-> TRUE, market |-> market, tf |-> tf,
                   result |-> DataEngineGet(cache, market, tf)]
        /\ cache' = cache
        /\ UNCHANGED <<now, var_symbol, var_tf, ui, ghost, calls, steps, loop>>

\* ------------------------------------------------------------------------
\* DataEngine.refresh_all, statement by statement
\* ------------------------------------------------------------------------
\* the locals at the top of the loop body: fetch_ok = False,
\* fetch_error = None, candles = []
NoFetch ==
    [propagated |-> FALSE,
     result |-> [raised |-> FALSE, candles |-> << >>, error |-> NoneStr],
     candles |-> << >>, fetch_ok |-> FALSE, fetch_error |-> NoneStr]
\* no call in progress
NoFrame ==
    [market |-> Market0, tfs |-> << >>, i |-> 0,
     out |-> [kind |-> "none", data |-> << >>], r |-> NoFetch]

Event(what, i) == [what |-> what, i |-> i, tf |-> frame.tfs[i]]

\* mutant: the requests of all timeframes are issued before any is awaited
AfterRequest_FanOut(i, n) ==
    IF i < n THEN [pc |-> "request", i |-> i + 1]
    ELSE [pc |-> "wait", i |-> i]

\* requests.get blocks: after the request of tfs[i] is issued the call waits
\* for that response
AfterRequest(i, n) == [pc |-> "wait", i |-> i]

\* mutant: a timeframe whose fetch did not deliver bars is fetched again
\* before the loop moves on
AfterWrite_RetryFailed(i, n) ==
    IF frame.out.kind # "ok" THEN [pc |-> "request", i |-> i]
    ELSE IF i < n THEN [pc |-> "request", i |-> i + 1]
    ELSE [pc |-> "idle", i |-> i]

\* after the write of tfs[i]: the next iteration of `for tf in tfs`, or the
\* return
AfterWrite(i, n) ==
    IF i < n THEN [pc |-> "request", i |-> i + 1]
    ELSE [pc |-> "idle", i |-> i]

\* refresh_all(market, tfs) is entered
RefreshAllEnter ==
    /\ pc = "idle"
    /\ \E market \in EngineMarkets, tfs \in TfLists :
          /\ now + Len(tfs) <= MaxClock
          /\ frame' = [NoFrame EXCEPT !.market = market, !.tfs = tfs,
                                      !.i = IF tfs = << >> THEN 0 ELSE 1]
          /\ pc' = IF tfs = << >> THEN "idle" ELSE "request"
          /\ lastCall' = [called |-> TRUE, market |-> market, tfs |-> tfs,
                          start |-> now, raised |-> FALSE]
    /\ events' = << >>
    /\ got' = NoGot
    /\ UNCHANGED <<cache, now, var_symbol, var_tf, ui, hist, seen, listed,
                   calls, loop>>

\* the loop body starts for tfs[i] and _fetch_candles_from_api issues
\* requests.get
FetchRequest ==
    /\ pc = "request"
    /\ LET nx == AfterRequest(frame.i, Len(frame.tfs)) IN
       /\ pc' = nx.pc
       /\ frame' = [frame EXCEPT !.r = NoFetch, !.i = nx.i]
    /\ events' = Append(events, Event("request", frame.i))
    /\ UNCHANGED <<cache, now, var_symbol, var_tf, ui, got, ghost, calls, loop>>

\* the request ends (response, timeout or error) and the fetcher returns
\* or raises into the try/except
FetchReturn ==
    /\ pc = "wait"
    /\ \E out \in Outcomes :
          LET r == TryFetch(cache, frame.market, frame.tfs[frame.i], out) IN
          /\ frame' = [frame EXCEPT !.out = out, !.r = r]
          /\ pc' = IF r.propagated THEN "idle" ELSE "write"
          /\ lastCall' = [lastCall EXCEPT !.raised = r.propagated]
    /\ now' = now + 1
    /\ events' = Append(events, Event("done", frame.i))
    /\ UNCHANGED <<cache, var_symbol, var_tf, ui, got, hist, seen, listed,
                   calls, loop>>

\* self._cache[(market, tf)] = {...}
WriteEntry ==
    /\ pc = "write"
    /\ LET k == <<frame.market, frame.tfs[frame.i]>>
           e == MakeEntry(frame.r, now)
           st == [cache |-> cache, now |-> now - 1, hist |-> hist]
           nx == AfterWrite(frame.i, Len(frame.tfs))
       IN  /\ cache' = DictPut(cache, k, e)
           /\ hist' = DictPut(hist, k, HistEntry(st, k, frame.out, frame.r, e))
           /\ seen' = SeenPut(seen, frame.market, frame.tfs[frame.i],
                              frame.out, frame.r)
           /\ listed' = listed \cup {k}
           /\ pc' = nx.pc
           /\ frame' = [frame EXCEPT !.i = nx.i]
    /\ events' = Append(events, Event("write", frame.i))
    /\ UNCHANGED <<now, var_symbol, var_tf, ui, got, lastCall, calls, loop>>

\* ------------------------------------------------------------------------
\* Exact rational arithmetic standing in for Python floats: <<num, den>>,
\* den > 0, in lowest terms
\* ------------------------------------------------------------------------
Abs(x) == IF x < 0 THEN -x ELSE x

RECURSIVE GCD(_, _)
GCD(a, b) == IF b = 0 THEN a ELSE GCD(b, a % b)

Rat(n, d) ==
    LET g == GCD(Abs(n), Abs(d))
        s == IF d < 0 THEN -1 ELSE 1
    IN  <<(s * n) \div g, (s * d) \div g>>

RInt(n) == <<n, 1>>
RNeg(a) == <<-a[1], a[2]>>
RAdd(a, b) ==
    IF a[2] = b[2]
    THEN IF a[2] = 1 THEN <<a[1] + b[1], 1>> ELSE Rat(a[1] + b[1], a[2])
    ELSE LET g == GCD(a[2], b[2]) IN
         Rat(a[1] * (b[2] \div g) + b[1] * (a[2] \div g),
             (a[2] \div g) * b[2])
RSub(a, b) == RAdd(a, RNeg(b))
RMul(a, b) ==
    IF a[2] = 1 /\ b[2] = 1 THEN <<a[1] * b[1], 1>>
    ELSE LET g1 == GCD(Abs(a[1]), b[2])
             g2 == GCD(Abs(b[1]), a[2])
         IN  Rat((a[1] \div g1) * (b[1] \div g2),
                 (a[2] \div g2) * (b[2] \div g1))
RInv(a) == IF a[1] < 0 THEN <<-a[2], -a[1]>> ELSE <<a[2], a[1]>>
RDiv(a, b) == RMul(a, RInv(b))
RLt(a, b) == a[1] * b[2] < b[1] * a[2]
RLe(a, b) == a[1] * b[2] <= b[1] * a[2]
RMax(a, b) == IF RLt(a, b) THEN b ELSE a
RMin(a, b) == IF RLt(b, a) THEN b ELSE a

\* sum of s[lo..hi], summed by halves to keep the evaluation shallow
RECURSIVE RSumRange(_, _, _)
RSumRange(s, lo, hi) ==
    IF lo > hi THEN RInt(0)
    ELSE IF lo = hi THEN s[lo]
    ELSE LET mid == (lo + hi) \div 2 IN
         RAdd(RSumRange(s, lo, mid), RSumRange(s, mid + 1, hi))

RSum(s) == RSumRange(s, 1, Len(s))

\* ------------------------------------------------------------------------
\* calc_rsi and IndicatorEngine
\* ------------------------------------------------------------------------
\* a call's result: it raised, or returned val (None or Some(value))
Returned(v) == [raised |-> FALSE, val |-> v]
Raised == [raised |-> TRUE, val |-> None]

\* calc_rsi, the smoothing loop `for i in range(period, len(gains))`;
\* i is the 1-based position of the next value
RECURSIVE WilderSmooth(_, _, _, _)
WilderSmooth(avg, vals, i, period) ==
    IF i > Len(vals) THEN avg
    ELSE WilderSmooth(
            RDiv(RAdd(RMul(avg, RInt(period - 1)), vals[i]), RInt(period)),
            vals, i + 1, period)

\* mutant: a falling close is recorded as a negative loss (diff, not -diff)
calc_rsi_LossSign(closes, period) ==
    IF Len(closes) < period + 1 THEN Returned(None)
    ELSE IF period = 0 THEN Raised
    ELSE
    LET n == Len(closes) - 1
        diff(i) == RSub(closes[i + 1], closes[i])
        gains == [i \in 1..n |->
                    IF RLe(RInt(0), diff(i)) THEN diff(i) ELSE RInt(0)]
        losses == [i \in 1..n |->
                    IF RLe(RInt(0), diff(i)) THEN RInt(0) ELSE diff(i)]
        seed_gain == RDiv(RSum(SubSeq(gains, 1, period)), RInt(period))
        seed_loss == RDiv(RSum(SubSeq(losses, 1, period)), RInt(period))
        avg_gain == WilderSmooth(seed_gain, gains, period + 1, period)
        avg_loss == WilderSmooth(seed_loss, losses, period + 1, period)
    IN  IF avg_loss = RInt(0) THEN Returned(Some(RInt(100)))
        ELSE LET rs == RDiv(avg_gain, avg_loss) IN
             IF RAdd(RInt(1), rs) = RInt(0) THEN Raised
             ELSE Returned(Some(RSub(RInt(100),
                                     RDiv(RInt(100), RAdd(RInt(1), rs)))))

\* calc_rsi(closes, period), period >= 0
calc_rsi(closes, period) ==
    IF Len(closes) < period + 1 THEN Returned(None)
    ELSE IF period = 0 THEN Raised      \* sum(gains[:0]) / 0
    ELSE
    LET n == Len(closes) - 1
        diff(i) == RSub(closes[i + 1], closes[i])
        gains == [i \in 1..n |->
                    IF RLe(RInt(0), diff(i)) THEN diff(i) ELSE RInt(0)]
        losses == [i \in 1..n |->
                    IF RLe(RInt(0), diff(i)) THEN RInt(0) ELSE RNeg(diff(i))]
        seed_gain == RDiv(RSum(SubSeq(gains, 1, period)), RInt(period))
        seed_loss == RDiv(RSum(SubSeq(losses, 1, period)), RInt(period))
        avg_gain == WilderSmooth(seed_gain, gains, period + 1, period)
        avg_loss == WilderSmooth(seed_loss, losses, period + 1, period)
    IN  IF avg_loss = RInt(0) THEN Returned(Some(RInt(100)))
        ELSE LET rs == RDiv(avg_gain, avg_loss) IN
             Returned(Some(RSub(RInt(100),
                                RDiv(RInt(100), RAdd(RInt(1), rs)))))

\* IndicatorEngine._to_float(val)
to_float(val) ==
    CASE val.t = "num" -> Returned(Some(RInt(val.v)))
      [] val.t = "str" -> Returned(Some(RInt(val.v)))
      [] val.t = "bool" -> Returned(Some(RInt(val.v)))   \* float(True) = 1.0
      [] val.t = "huge" -> Raised       \* OverflowError is not caught
      [] OTHER -> Returned(None)        \* None; ValueError and TypeError caught

\* ChartEngine._to_float(val): the None test sits inside the try
ChartToFloat(val) ==
    CASE val.t = "none" -> Returned(None)
      [] val.t \in {"num", "str", "bool"} -> Returned(Some(RInt(val.v)))
      [] val.t = "huge" -> Raised       \* OverflowError is not caught
      [] OTHER -> Returned(None)        \* ValueError and TypeError caught

\* IndicatorEngine._get_closes, the loop over the candles: the coerced
\* closes in candle order, the bars whose close is None skipped
CollectCloses(candles) ==
    IF \E i \in DOMAIN candles :
          \/ ~candles[i].dict                       \* c.get: AttributeError
          \/ to_float(candles[i].trade_price).raised
    THEN Raised
    ELSE LET kept == SelectSeq(candles,
                        LAMBDA c : to_float(c.trade_price).val # None)
         IN  Returned([i \in 1..Len(kept) |->
                          to_float(kept[i].trade_price).val[1]])

\* IndicatorEngine._get_closes(market, tf)
get_closes(c, market, tf) ==
    LET data == DataEngineGet(c, market, tf) IN
    IF data = None THEN Returned(None)
    ELSE LET r == CollectCloses(data[1].candles) IN
         IF r.raised THEN Raised
         ELSE IF r.val = << >> THEN Returned(None)
         ELSE Returned(Some(r.val))

\* IndicatorEngine.rsi(market, tf, period)
rsi(c, market, tf, period) ==
    LET closes == get_closes(c, market, tf) IN
    IF closes.raised THEN Raised
    ELSE IF closes.val = None THEN Returned(None)
    ELSE calc_rsi(closes.val[1], period)

\* IndicatorEngine.macd, the inner ema(vals, period) with k = 2 / (period + 1);
\* prev is the previous EMA value, None before the first
RECURSIVE EmaFrom(_, _, _)
EmaFrom(vals, k, prev) ==
    IF vals = << >> THEN << >>
    ELSE LET v == Head(vals)
             e == IF prev = None THEN v
                  ELSE RAdd(RMul(v, k), RMul(prev[1], RSub(RInt(1), k)))
         IN  <<e>> \o EmaFrom(Tail(vals), k, Some(e))

\* mutant: the series starts from 0 instead of the first value
ema_SeededZero(vals, period) ==
    EmaFrom(vals, Rat(2, period + 1), Some(RInt(0)))

ema(vals, period) == EmaFrom(vals, Rat(2, period + 1), None)

\* IndicatorEngine.macd(market, tf, short, long, signal), periods >= 0
macd(c, market, tf, short, long, signal) ==
    LET closes == get_closes(c, market, tf) IN
    IF closes.raised THEN Raised
    ELSE IF closes.val = None THEN Returned(None)
    ELSE
    LET cl == closes.val[1]
        ema_short == ema(cl, short)
        ema_long == ema(cl, long)
        macd_line == [i \in 1..Len(cl) |-> RSub(ema_short[i], ema_long[i])]
        signal_line == ema(macd_line, signal)
        n == Len(cl)
    IN  Returned(Some(<<macd_line[n], signal_line[n],
                        RSub(macd_line[n], signal_line[n])>>))

\* IndicatorEngine.trend_score(market, tf)
trend_score(c, market, tf) ==
    LET closes == get_closes(c, market, tf) IN
    IF closes.raised THEN Raised
    ELSE IF closes.val = None THEN Returned(None)
    ELSE IF Len(closes.val[1]) < 10 THEN Returned(None)
    ELSE
    LET ys == closes.val[1]
        n == Len(ys)
        x_mean == Rat(RSum([i \in 1..n |-> RInt(i - 1)])[1], n)
        y_mean == RDiv(RSum(ys), RInt(n))
        num == RSum([i \in 1..n |->
                 RMul(RSub(RInt(i - 1), x_mean), RSub(ys[i], y_mean))])
        den0 == RSum([i \in 1..n |->
                 RMul(RSub(RInt(i - 1), x_mean), RSub(RInt(i - 1), x_mean))])
        den == IF den0 = RInt(0) THEN RInt(1) ELSE den0
        slope == RDiv(num, den)
        raw_score == RAdd(RInt(50), RMul(slope, RInt(1000)))
    IN  Returned(Some(RMax(RInt(0), RMin(RInt(100), raw_score))))

\* the indicators the dashboard shows for a key (default periods)
Indicators(c, market, tf) ==
    [rsi |-> rsi(c, market, tf, 14),
     macd |-> macd(c, market, tf, 12, 26, 9),
     trend |-> trend_score(c, market, tf)]

\* ------------------------------------------------------------------------
\* The indicator functions called directly
\* ------------------------------------------------------------------------
\* nothing was handed to an indicator function / none was called
NoInput == [kind |-> "none", val |-> Null, closes |-> << >>]
NoCall == [op |-> "none", args |-> << >>, result |-> Returned(None)]

\* the values a provider can put under "trade_price"
ExternalValues ==
    {Null, BadStr, NumStr(100), Num(100), Num(0), Huge,
     Bool(TRUE), Bool(FALSE), ListVal, DictVal}

\* Each behaviour makes one call: the functions keep no state of their own,
\* a second call would start from the same arguments.
\* _to_float(val) of the indicator engine
ToFloatCall ==
    /\ ret = NoCall
    /\ inp.kind = "value"
    /\ ret' = [op |-> "to_float", args |-> << >>,
               result |-> to_float(inp.val)]
    /\ UNCHANGED <<cache, now, var_symbol, var_tf, ui, got, ghost, inp, steps, loop>>

\* _to_float(val) of the chart engine
ChartToFloatCall ==
    /\ ret = NoCall
    /\ inp.kind = "value"
    /\ ret' = [op |-> "chart_to_float", args |-> << >>,
               result |-> ChartToFloat(inp.val)]
    /\ UNCHANGED <<cache, now, var_symbol, var_tf, ui, got, ghost, inp, steps, loop>>

\* the closes sequences handed to calc_rsi
CloseValues == {1, 2, 3}
ClosesInputs ==
    UNION {[1..n -> {RInt(v) : v \in CloseValues}] : n \in 0..MaxCloses}

\* calc_rsi(closes, period)
CalcRsiCall ==
    /\ ret = NoCall
    /\ inp.kind = "closes"
    /\ \E period \in 0..MaxPeriod :
          ret' = [op |-> "calc_rsi", args |-> <<period>>,
                  result |-> calc_rsi(inp.closes, period)]
    /\ UNCHANGED <<cache, now, var_symbol, var_tf, ui, got, ghost, inp, steps, loop>>

\* the elements a provider's JSON array can hold
BarKinds ==
    {Bar(Num(100)), Bar(Num(102)), Bar(NumStr(101)), Bar(BadStr), Bar(Null),
     Bar(Huge), NonRecordBar}
\* n bars (oldest first) closing at 100, those at the positions S at 101
Bumped(n, S) == [i \in 1..n |-> Bar(Num(IF i \in S THEN 101 ELSE 100))]
\* trend_score's minimum number of closes
TrendMin == 10
\* long candle lists around trend_score's minimum, some led by a bar that
\* does not coerce or is not a record
LongCandles ==
    LET plain == {Bumped(n, S) : n \in {TrendMin - 1, TrendMin, TrendMin + 1},
                                 S \in {T \in SUBSET (1..(TrendMin + 1)) :
                                           Cardinality(T) <= MaxBumps}}
        led == {<<b>> \o Bumped(n, {n}) :
                   b \in {Bar(BadStr), NonRecordBar, Bar(Huge)},
                   n \in {TrendMin - 1, TrendMin}}
    IN  plain \cup led \cup {Reverse(RespLong)}
\* the short candle lists (oldest first) a successful fetch can have cached
ShortCandles == UNION {[1..n -> BarKinds] : n \in 0..MaxBars}

\* the engine after refresh_all(Market0, [tf]) cached the candles
Loaded(candles) ==
    RefreshLoop([cache |-> << >>, now |-> 0, hist |-> << >>, seen |-> << >>,
                 raised |-> FALSE],
                Market0, <<CfgTimeframes[1]>>,
                <<[kind |-> "ok", data |-> Reverse(candles)]>>)

\* the period arguments tried: small ones and the defaults
RsiPeriods == (0..MaxPeriod) \cup {14}
MacdPeriods == {<<q, q + 1, q>> : q \in 0..MaxPeriod}
\* an entry was cached (a short or a long candle list)
KeyInput == inp.kind \in {"key", "long"}

\* IndicatorEngine._get_closes(market, tf)
GetClosesCall ==
    /\ ret = NoCall
    /\ KeyInput
    /\ \E tf \in Timeframes :
          ret' = [op |-> "get_closes", args |-> <<tf>>,
                  result |-> get_closes(cache, Market0, tf)]
    /\ UNCHANGED <<cache, now, var_symbol, var_tf, ui, got, ghost, inp, steps, loop>>

\* IndicatorEngine.rsi(market, tf, period)
RsiCall ==
    /\ ret = NoCall
    /\ KeyInput
    /\ \E tf \in Timeframes, period \in RsiPeriods :
          ret' = [op |-> "rsi", args |-> <<tf, period>>,
                  result |-> rsi(cache, Market0, tf, period)]
    /\ UNCHANGED <<cache, now, var_symbol, var_tf, ui, got, ghost, inp, steps, loop>>

\* IndicatorEngine.macd(market, tf, short, long, signal); on the short
\* candle lists only, where the exact EMA values fit the integers of TLC
MacdCall ==
    /\ ret = NoCall
    /\ inp.kind = "key"
    /\ \E tf \in Timeframes, pp \in MacdPeriods :
          ret' = [op |-> "macd", args |-> <<tf, pp[1], pp[2], pp[3]>>,
                  result |-> macd(cache, Market0, tf, pp[1], pp[2], pp[3])]
    /\ UNCHANGED <<cache, now, var_symbol, var_tf, ui, got, ghost, inp, steps, loop>>

\* IndicatorEngine.trend_score(market, tf)
TrendScoreCall ==
    /\ ret = NoCall
    /\ KeyInput
    /\ \E tf \in Timeframes :
          ret' = [op |-> "trend_score", args |-> <<tf>>,
                  result |-> trend_score(cache, Market0, tf)]
    /\ UNCHANGED <<cache, now, var_symbol, var_tf, ui, got, ghost, inp, steps, loop>>

\* the timeframe identifiers handed to refresh_all one at a time
TfInputs ==
    UNION {[1..n -> TfAlphabet] : n \in 0..MaxTfLen}

\* refresh_all(market, [tf]) for one identifier: the request goes to the
\* endpoint resolved from tf and the entry is stored under (market, tf)
ResolveCall ==
    /\ ret = NoCall
    /\ inp.kind = "tf"
    /\ \E outs \in OutcomeSeqs(1) :
          RefreshAllCall(Market0, <<inp.val.v>>, outs)
    /\ ret' = [op |-> "refresh_all", args |-> <<inp.val.v>>,
               result |-> Returned(ResolveUrl(inp.val.v))]
    /\ UNCHANGED <<var_symbol, var_tf, ui, inp, steps, loop>>

\* ------------------------------------------------------------------------
\* SeohyunDashboard: selection and the UI tick
\* ------------------------------------------------------------------------
SelectSymbol ==
    \E m \in Markets :
        /\ m # var_symbol
        /\ var_symbol' = m
        /\ UNCHANGED <<cache, now, var_tf, ui, got, ghost, calls, steps, loop>>

SelectTf ==
    \E tf \in Timeframes :
        /\ tf # var_tf
        /\ var_tf' = tf
        /\ UNCHANGED <<cache, now, var_symbol, ui, got, ghost, calls, steps, loop>>

\* _tick part 1: the data status derived from the entry of the selected key.
\* Only the class of the status text is kept, not its parameters.
DataStatus(c, market, tf) ==
    LET data == DataEngineGet(c, market, tf) IN
    IF data = None THEN Returned("CACHE MISS")
    ELSE
    LET e == data[1]
        candles == e.candles
        valid_prices == Cardinality({i \in DOMAIN candles :
            candles[i].dict /\ candles[i].trade_price.t \in {"num", "str"}})
    IN  IF e.fetch_ok = FALSE /\ e.fetch_error # NoneStr /\ e.fetch_error # ""
        THEN Returned("HTTP FAIL")
        ELSE IF candles = << >> THEN Returned("NO DATA - EMPTY")
        ELSE IF \E i \in DOMAIN candles :
                   candles[i].dict /\ candles[i].trade_price.t = "huge"
        THEN Raised                     \* float(v): OverflowError escapes
        ELSE IF valid_prices = 0 THEN Returned("BAD VALUES")
        ELSE Returned("DATA OK")

\* f"{rsi_val:5.2f}": the value in hundredths, rounded
Fmt2(r) == (200 * r[1] + r[2]) \div (2 * r[2])

\* _tick part 2: the zone of a clamped RSI value
Zone(rsi_clamped) ==
    IF RLe(rsi_clamped, RInt(30)) THEN "OVERSOLD"
    ELSE IF RLe(RInt(70), rsi_clamped) THEN "OVERBOUGHT"
    ELSE "NEUTRAL"

\* bookkeeping: the entries the refresh_all call in progress, or the last
\* one, has written
Written == Cardinality({j \in DOMAIN events : events[j].what = "write"})

\* SeohyunDashboard._start_ui_refresh_loop._tick: the 1 s timer callback
\* (part 3 draws the chart and writes only chart widgets); loop.tickSaw
\* records where a refresh_all call stood when the tick read the cache
UiTick ==
    LET st == DataStatus(cache, var_symbol, var_tf)
        r == rsi(cache, var_symbol, var_tf, 14)
    IN  /\ IF st.raised
           THEN UNCHANGED ui
           ELSE /\ var_data_status' = st.val
                /\ IF r.raised
                   THEN /\ var_rsi_value' = [t |-> "error", v |-> 0]
                        /\ UNCHANGED <<var_rsi_status, rsi_bar>>
                   ELSE IF r.val = None
                   THEN UNCHANGED <<var_rsi_value, var_rsi_status, rsi_bar>>
                   ELSE LET rsi_clamped ==
                                RMax(RInt(0), RMin(RInt(100), r.val[1]))
                        IN  /\ var_rsi_value' =
                                   [t |-> "num", v |-> Fmt2(r.val[1])]
                            /\ var_rsi_status' = Zone(rsi_clamped)
                            /\ rsi_bar' = rsi_clamped
        /\ got' = NoGot
        /\ loop' = [loop EXCEPT !.tickSaw = [pc |-> pc, writes |-> Written]]
        /\ UNCHANGED <<cache, now, var_symbol, var_tf, ghost, calls, steps>>

\* ------------------------------------------------------------------------
\* The Tk event loop: SeohyunDashboard.__init__ starts the two loops, then
\* app.mainloop() runs the timer callbacks and the user's events
\* ------------------------------------------------------------------------
\* __init__ is about to call _start_data_refresh_loop(); no timer is pending
\* and no tick has read the cache
NoLoop ==
    [pending |-> {"data"}, running |-> "none", booted |-> FALSE,
     tickSaw |-> [pc |-> "idle", writes |-> 0]]

\* mutant: callbacks are dispatched while refresh_all waits for a response
CallbackMayRun_Reentrant == TRUE

\* the one thread of the program runs a callback to its end before the
\* event loop dispatches the next timer or event
CallbackMayRun == pc = "idle" /\ loop.running = "none"

\* _start_data_refresh_loop is entered (from __init__ the first time, from
\* its timer afterwards) and calls refresh_all(var_symbol.get(),
\* cfg.timeframes)
CycleEnter ==
    /\ CallbackMayRun
    /\ "data" \in loop.pending
    /\ now + Len(CfgTimeframes) <= MaxCycles * Len(CfgTimeframes)
    /\ loop' = [loop EXCEPT !.pending = @ \ {"data"}, !.running = "data"]
    /\ frame' = [NoFrame EXCEPT !.market = var_symbol, !.tfs = CfgTimeframes,
                                !.i = 1]
    /\ pc' = "request"
    /\ lastCall' = [called |-> TRUE, market |-> var_symbol,
                    tfs |-> CfgTimeframes, start |-> now, raised |-> FALSE]
    /\ events' = << >>
    /\ got' = NoGot
    /\ UNCHANGED <<cache, now, var_symbol, var_tf, ui, hist, seen, listed,
                   calls>>

\* mutant: the successor is scheduled only when refresh_all did not raise,
\* and never by the call __init__ makes
Successor_OnlyFromTimer(booted) == IF booted THEN {"data"} ELSE {}

\* self.after(3000, self._start_data_refresh_loop), after the try/except
Successor(booted) == {"data"}

\* refresh_all has returned or raised: the callback schedules its successor
\* and ends; __init__ then starts the UI loop, whose first tick is due
CycleReturn ==
    /\ pc = "idle"
    /\ loop.running = "data"
    /\ loop' = [loop EXCEPT
                   !.running = "none",
                   !.pending = @ \cup Successor(loop.booted)
                                 \cup (IF loop.booted THEN {} ELSE {"ui"}),
                   !.booted = TRUE]
    /\ UNCHANGED <<cache, now, var_symbol, var_tf, ui, got, ghost, calls,
                   steps>>

\* the UI timer fires; _tick reschedules itself in its finally block, so
\* the timer stays pending
TimerTick ==
    /\ CallbackMayRun
    /\ "ui" \in loop.pending
    /\ UiTick

\* the user picks a value in one of the two readonly comboboxes
UserSelect ==
    /\ CallbackMayRun
    /\ loop.booted
    /\ (SelectSymbol \/ SelectTf)

Init ==
    /\ cache = << >>
    /\ now = 0
    /\ var_symbol = Market0
    /\ var_tf = CfgTimeframes[1]
    /\ var_data_status = "INIT"
    /\ var_rsi_value = [t |-> "init", v |-> 0]
    /\ var_rsi_status = "INIT"
    /\ rsi_bar = RInt(0)
    /\ got = NoGot
    /\ hist = << >>
    /\ seen = << >>
    /\ listed = {}
    /\ lastCall = [called |-> FALSE, market |-> Market0, tfs |-> << >>,
                   start |-> 0, raised |-> FALSE]
    /\ inp = NoInput
    /\ ret = NoCall
    /\ pc = "idle"
    /\ frame = NoFrame
    /\ events = << >>
    /\ loop = NoLoop

\* the engine driven through its interface
Next ==
    \/ refresh_all
    \/ get

Spec == Init /\ [][Next]_vars

\* the engine's writes alone: every cache the refreshes can produce
NextRefresh == refresh_all

SpecRefresh == Init /\ [][NextRefresh]_vars

\* the engine's writes for every instrument
NextFrame == refresh_all_markets

SpecFrame == Init /\ [][NextFrame]_vars

\* the dashboard: the two timer callbacks and the user's selection
NextApp ==
    \/ StartDataRefreshLoop
    \/ UiTick
    \/ SelectSymbol
    \/ SelectTf

SpecApp == Init /\ [][NextApp]_vars

\* the indicator functions called directly: on an external value, on a
\* closes sequence, or on the engine after one refresh cached a candle list
InitCalls ==
    /\ var_symbol = Market0
    /\ var_tf = CfgTimeframes[1]
    /\ var_data_status = "INIT"
    /\ var_rsi_value = [t |-> "init", v |-> 0]
    /\ var_rsi_status = "INIT"
    /\ rsi_bar = RInt(0)
    /\ got = NoGot
    /\ ret = NoCall
    /\ pc = "idle"
    /\ frame = NoFrame
    /\ events = << >>
    /\ loop = NoLoop
    /\ \/ /\ \E v \in ExternalValues :
                inp = [kind |-> "value", val |-> v, closes |-> << >>]
          /\ cache = << >> /\ now = 0 /\ hist = << >> /\ seen = << >>
          /\ listed = {}
          /\ lastCall = [called |-> FALSE, market |-> Market0,
                         tfs |-> << >>, start |-> 0, raised |-> FALSE]
       \/ /\ \E tf \in TfInputs :
                inp = [kind |-> "tf", val |-> [t |-> "text", v |-> tf],
                       closes |-> << >>]
          /\ cache = << >> /\ now = 0 /\ hist = << >> /\ seen = << >>
          /\ listed = {}
          /\ lastCall = [called |-> FALSE, market |-> Market0,
                         tfs |-> << >>, start |-> 0, raised |-> FALSE]
       \/ /\ \E cl \in ClosesInputs :
                inp = [kind |-> "closes", val |-> Null, closes |-> cl]
          /\ cache = << >> /\ now = 0 /\ hist = << >> /\ seen = << >>
          /\ listed = {}
          /\ lastCall = [called |-> FALSE, market |-> Market0,
                         tfs |-> << >>, start |-> 0, raised |-> FALSE]
       \/ /\ \E kind \in {"key", "long"} :
                /\ inp = [kind |-> kind, val |-> Null, closes |-> << >>]
                /\ \E candles \in IF kind = "key" THEN ShortCandles
                                                   ELSE LongCandles :
                      LET st == Loaded(candles) IN
                      /\ cache = st.cache /\ now = st.now
                      /\ hist = st.hist /\ seen = st.seen
          /\ listed = {<<Market0, CfgTimeframes[1]>>}
          /\ lastCall = [called |-> TRUE, market |-> Market0,
                         tfs |-> <<CfgTimeframes[1]>>, start |-> 0,
                         raised |-> FALSE]

NextCalls ==
    \/ ToFloatCall
    \/ ChartToFloatCall
    \/ CalcRsiCall
    \/ GetClosesCall
    \/ RsiCall
    \/ MacdCall
    \/ TrendScoreCall
    \/ ResolveCall

SpecCalls == InitCalls /\ [][NextCalls]_vars

\* refresh_all followed statement by statement
NextSteps ==
    \/ RefreshAllEnter
    \/ FetchRequest
    \/ FetchReturn
    \/ WriteEntry

SpecSteps == Init /\ [][NextSteps]_vars

\* the dashboard with refresh_all followed statement by statement
NextLoop ==
    \/ CycleEnter
    \/ FetchRequest
    \/ FetchReturn
    \/ WriteEntry
    \/ CycleReturn
    \/ TimerTick
    \/ UserSelect

SpecLoop == Init /\ [][NextLoop]_vars

\* Scheduling of the one thread: the pending refresh timer fires once the
\* event loop is idle (after(3000, ...)), a request ends at the latest at
\* its timeout (timeout=3.0), and a callback that runs proceeds to its next
\* statement.  Nothing is assumed about how often the UI timer fires.
LoopFairness ==
    /\ WF_vars(CycleEnter)
    /\ WF_vars(FetchRequest)
    /\ WF_vars(FetchReturn)
    /\ WF_vars(WriteEntry)
    /\ WF_vars(CycleReturn)

SpecLoopFair == SpecLoop /\ LoopFairness

\* ------------------------------------------------------------------------
\* Properties
\* ------------------------------------------------------------------------
\* what an entry reports about its fetch (the time stamp left aside)
EntryReport(e) == <<e.candles, e.fetch_ok, e.fetch_error>>
FetchedKeys == DOMAIN hist

\* C1: when a key whose entry was written by a successful fetch meets a
\* Transport failure in the next refresh, get returns the previous bars
\* with fetch status FAILED
C1_TransportKeepsBarsAndFails ==
    \A k \in FetchedKeys :
        (hist[k].kind = "transport" /\ hist[k].prevKind = "ok") =>
            LET g == DataEngineGet(cache, k[1], k[2]) IN
            /\ g # None
            /\ g[1].candles = hist[k].prev[1].candles
            /\ g[1].fetch_ok = FALSE

\* C2: a Protocol failure on a key without an entry leaves an entry with
\* empty bars, status FAILED and a non-empty failure description
C2_ProtocolFailureRecorded ==
    \A k \in FetchedKeys :
        (hist[k].kind = "protocol" /\ hist[k].prev = None) =>
            /\ k \in DOMAIN cache
            /\ cache[k].candles = << >>
            /\ cache[k].fetch_ok = FALSE
            /\ cache[k].fetch_error \notin {NoneStr, ""}

\* C3: refresh_all returns normally whatever each fetch did, and has written
\* an entry for every listed timeframe during the call
C3_RefreshAllNeverRaises ==
    lastCall.called =>
        /\ ~lastCall.raised
        /\ \A i \in DOMAIN lastCall.tfs :
              LET k == <<lastCall.market, lastCall.tfs[i]>> IN
              /\ k \in DOMAIN cache
              /\ cache[k].last_refresh >= lastCall.start + i
              /\ cache[k].last_refresh <= now

\* C3 witness: a call over two timeframes returned although the fetcher
\* raised for the first and met a Shape failure for the second
C3_Witness ==
    /\ lastCall.called
    /\ lastCall.tfs = CfgTimeframes
    /\ LET k1 == <<lastCall.market, CfgTimeframes[1]>>
           k2 == <<lastCall.market, CfgTimeframes[2]>>
       IN  /\ k1 \in FetchedKeys /\ k2 \in FetchedKeys
           /\ hist[k1].kind = "raise" /\ hist[k1].at = lastCall.start + 1
           /\ hist[k2].kind = "shape" /\ hist[k2].at = lastCall.start + 2

\* C4 (as claimed): what fetch returns for a key and a provider outcome is
\* the same whatever the cache holds
C4_FetchIgnoresCache ==
    \A k \in FetchedKeys :
        LET o == <<k[1], k[2], hist[k].kind, hist[k].data>> IN
        o \in DOMAIN seen => hist[k].result = seen[o]

\* C4 (amended): a successful response is returned reversed whatever the
\* cache holds; on each of the four failures fetch returns the bars cached
\* under the same key, or no bars when the key has no entry
C4_FetchReadsCacheOnlyOnFailure ==
    \A k \in FetchedKeys :
        LET h == hist[k] IN
        /\ h.kind = "ok" =>
              ~h.result.raised /\ h.result.candles = Reverse(h.data)
        /\ h.kind \in FailureKinds =>
              /\ ~h.result.raised
              /\ h.result.candles =
                    IF h.prev = None THEN << >> ELSE h.prev[1].candles

\* C4 witness: a failed fetch returned bars the other timeframe does not hold
C4_Witness ==
    \E k \in FetchedKeys :
        /\ hist[k].kind = "decode"
        /\ hist[k].prev # None
        /\ hist[k].result.candles = Reverse(RespLong)
        /\ \E k2 \in FetchedKeys :
              k2[1] = k[1] /\ k2 # k /\ cache[k2].candles = << >>

\* C5: success and the four failure kinds are told apart, both in what
\* fetch returns and in the entry recorded: two keys whose most recent
\* fetches ended differently differ in both
C5_FailureKindsDistinct ==
    \A k1, k2 \in FetchedKeys :
        ( /\ hist[k1].kind \in FailureKinds \cup {"ok"}
          /\ hist[k2].kind \in FailureKinds \cup {"ok"}
          /\ hist[k1].kind # hist[k2].kind ) =>
            /\ hist[k1].result # hist[k2].result
            /\ EntryReport(cache[k1]) # EntryReport(cache[k2])

\* C6: a UI tick on a key whose most recent fetch ended in a Transport or
\* Protocol failure shows HTTP FAIL
C6_TickShowsHttpFail ==
    [][UiTick =>
        LET k == <<var_symbol, var_tf>> IN
        (k \in FetchedKeys /\ hist[k].kind \in {"transport", "protocol"}) =>
            var_data_status' = "HTTP FAIL"]_vars

\* C7: after a successful fetch the key holds exactly the fetched bars,
\* status OK, no failure description and the time of the write
C7_SuccessStoresEntry ==
    \A k \in FetchedKeys :
        hist[k].kind = "ok" =>
            /\ k \in DOMAIN cache
            /\ cache[k] = [candles |-> Reverse(hist[k].data),
                           last_refresh |-> hist[k].at,
                           fetch_ok |-> TRUE,
                           fetch_error |-> NoneStr]
            /\ cache[k].last_refresh <= now

\* C7 witness: a successful fetch replaced the entry of a raised fetch
C7_Witness ==
    \E k \in FetchedKeys :
        /\ hist[k].kind = "ok"
        /\ hist[k].data = RespLong
        /\ hist[k].prev # None
        /\ hist[k].prev[1].candles = << >>
        /\ hist[k].prev[1].fetch_ok = FALSE

\* the entries of one key alone, as the indicators read them
OnlyEntry(k, e) == [x \in {k} |-> e]

\* C8: while only failures of the four kinds have followed the last
\* successful fetch of a key, get returns the bars of that fetch and rsi,
\* macd and trend_score return what they returned right after it
C8_LastKnownGood ==
    \A k \in FetchedKeys :
        (hist[k].kind \in FailureKinds /\ hist[k].good # None) =>
            LET g == DataEngineGet(cache, k[1], k[2]) IN
            /\ g # None
            /\ g[1].candles = hist[k].good[1].candles
            /\ Indicators(cache, k[1], k[2]) =
                  Indicators(OnlyEntry(k, hist[k].good[1]), k[1], k[2])

\* C8 witness: two failures in a row after a fetch of sixteen bars
C8_Witness ==
    \E k \in FetchedKeys :
        /\ hist[k].kind \in FailureKinds
        /\ hist[k].prevKind \in FailureKinds
        /\ hist[k].good # None
        /\ hist[k].good[1].candles = Reverse(RespLong)
        /\ rsi(cache, k[1], k[2], 14).val # None

\* C9: every key a refresh_all listed keeps an entry, the keys with an
\* entry only grow, and the UI tick and the selection leave the cache alone
C9_EntriesNeverDestroyed ==
    /\ [](listed \subseteq DOMAIN cache)
    /\ [][/\ DOMAIN cache \subseteq DOMAIN cache'
          /\ (UiTick \/ SelectSymbol \/ SelectTf) => cache' = cache]_vars

\* C9 witness: both instruments refreshed, and a tick has read the cache
C9_Witness ==
    /\ listed = Keys
    /\ DOMAIN cache = Keys
    /\ var_data_status = "DATA OK"

\* C10: get returns the entry stored under exactly the key asked for, or
\* None, changes nothing, and returns the same again until the next refresh
C10_GetIsPureRead ==
    [][get =>
        /\ cache' = cache
        /\ got'.result = DictGet(cache, <<got'.market, got'.tf>>)
        /\ (got.called /\ got.market = got'.market /\ got.tf = got'.tf) =>
              got'.result = got.result]_vars

\* C10 witness: get returned an entry while another key had none
C10_Witness ==
    /\ got.called
    /\ got.result # None
    /\ got.tf = CfgTimeframes[2]
    /\ <<got.market, CfgTimeframes[1]>> \notin DOMAIN cache

\* ------------------------------------------------------------------------
\* The indicator engine's claims
\* ------------------------------------------------------------------------
\* what the call was made on
CalledBars ==
    LET e == DictGet(cache, <<Market0, ret.args[1]>>) IN
    IF e = None THEN << >> ELSE e[1].candles
\* a bar whose close coerces: a record whose close is a number, a numeric
\* string or a boolean
Coercible(b) == b.dict /\ b.trade_price.t \in {"num", "str", "bool"}
\* the closes of the coercible bars, in bar order
RECURSIVE CoercedCloses(_)
CoercedCloses(bars) ==
    IF bars = << >> THEN << >>
    ELSE IF Coercible(Head(bars))
    THEN <<RInt(Head(bars).trade_price.v)>> \o CoercedCloses(Tail(bars))
    ELSE CoercedCloses(Tail(bars))

\* C11: close extraction returns the coerced closes of the entry's bars in
\* bar order, dropping exactly the bars whose close does not coerce, never
\* aborts, and returns absent exactly when there is no entry or no bar has
\* a coercible close
C11_ClosesExtraction ==
    ret.op = "get_closes" =>
        /\ ~ret.result.raised
        /\ ret.result.val = IF CoercedCloses(CalledBars) = << >> THEN None
                             ELSE Some(CoercedCloses(CalledBars))

\* C12: rsi, macd and trend_score never raise, whatever bars the entry
\* holds and whatever the period arguments
C12_IndicatorsNeverRaise ==
    ret.op \in {"rsi", "macd", "trend_score"} => ~ret.result.raised

\* C13: numeric coercion never raises: it returns the parsed number or
\* absent for every external value
C13_ToFloatNeverRaises ==
    ret.op \in {"to_float", "chart_to_float"} =>
        /\ ~ret.result.raised
        /\ ret.result.val # None =>
              inp.val.t \in {"num", "str", "bool"}

\* the closes and the period an RSI call worked on
RsiCloses ==
    IF ret.op = "calc_rsi" THEN inp.closes ELSE CoercedCloses(CalledBars)
RsiPeriod == IF ret.op = "calc_rsi" THEN ret.args[1] ELSE ret.args[2]

\* C14: RSI returns 'insufficient data' when there are fewer than period+1
\* closes and a number when there are at least period+1
C14_RsiNeedsPeriodPlusOne ==
    ret.op \in {"calc_rsi", "rsi"} =>
        /\ Len(RsiCloses) < RsiPeriod + 1 => ret.result = Returned(None)
        /\ Len(RsiCloses) >= RsiPeriod + 1 =>
              ~ret.result.raised /\ ret.result.val # None

\* no close is lower than its predecessor
NonDecreasing(closes) ==
    \A i \in 1..(Len(closes) - 1) : RLe(closes[i], closes[i + 1])

\* C15: on at least period+1 closes of which none is lower than its
\* predecessor RSI returns exactly 100, without dividing by zero
C15_NoLossGivesHundred ==
    ( /\ ret.op = "calc_rsi"
      /\ Len(inp.closes) >= ret.args[1] + 1
      /\ NonDecreasing(inp.closes) ) =>
        ret.result = Returned(Some(RInt(100)))

RECURSIVE RPow(_, _)
RPow(a, e) == IF e = 0 THEN RInt(1) ELSE RMul(a, RPow(a, e - 1))

\* the n-th value of the EMA of vals seeded with vals[1], written out as
\* the weighted sum (1-k)^(n-1) vals[1] + sum_{i=2..n} k (1-k)^(n-i) vals[i]
EmaAt(vals, period, n) ==
    LET k == Rat(2, period + 1)
        q == RSub(RInt(1), k)
    IN  RSum([i \in 1..n |->
                IF i = 1 THEN RMul(RPow(q, n - 1), vals[1])
                ELSE RMul(RMul(k, RPow(q, n - i)), vals[i])])
\* the i-th element of short-EMA minus long-EMA
MacdLineAt(cl, short, long, i) ==
    RSub(EmaAt(cl, short, i), EmaAt(cl, long, i))
\* the last element of the EMA of the MACD line
SignalAt(cl, short, long, signal) ==
    EmaAt([i \in 1..Len(cl) |-> MacdLineAt(cl, short, long, i)],
          signal, Len(cl))

\* C17: every triple macd returns has histogram = macd - signal, macd the
\* last element of short-EMA minus long-EMA over all the closes, signal the
\* last element of the EMA of that line, each EMA seeded with its first
\* input
C17_MacdTriple ==
    (ret.op = "macd" /\ ~ret.result.raised /\ ret.result.val # None) =>
        LET cl == CoercedCloses(CalledBars)
            r == ret.result.val[1]
        IN  /\ r[1] = MacdLineAt(cl, ret.args[2], ret.args[3], Len(cl))
            /\ r[2] = SignalAt(cl, ret.args[2], ret.args[3], ret.args[4])
            /\ r[3] = RSub(r[1], r[2])

\* C17 witness: macd over three different closes returned a histogram
\* that is not zero
C17_Witness ==
    /\ ret.op = "macd"
    /\ ~ret.result.raised
    /\ ret.result.val # None
    /\ Len(CoercedCloses(CalledBars)) = 3
    /\ ret.result.val[1][1] # RInt(0)
    /\ ret.result.val[1][3] # RInt(0)

\* C18: macd returns 'insufficient data' exactly when the key yields no
\* valid close (no entry, no bars, no coercible close); otherwise it
\* returns the last value of each of the three series, (0, 0, 0) for a
\* single valid close
C18_MacdNeedsOneClose ==
    ret.op = "macd" =>
        LET cl == CoercedCloses(CalledBars) IN
        /\ ~ret.result.raised
        /\ ret.result.val = None <=> Len(cl) < 1
        /\ Len(cl) = 1 =>
              ret.result.val = Some(<<RInt(0), RInt(0), RInt(0)>>)
        /\ Len(cl) >= 1 =>
              LET m == MacdLineAt(cl, ret.args[2], ret.args[3], Len(cl))
                  g == SignalAt(cl, ret.args[2], ret.args[3], ret.args[4])
              IN  ret.result.val = Some(<<m, g, RSub(m, g)>>)

\* the least-squares slope of the closes against their index 0..n-1,
\* n >= 2: (n Sxy - Sx Sy) / (n Sxx - Sx^2)
Slope(cl) ==
    LET n == Len(cl)
        Sx == RSum([i \in 1..n |-> RInt(i - 1)])
        Sy == RSum(cl)
        Sxy == RSum([i \in 1..n |-> RMul(RInt(i - 1), cl[i])])
        Sxx == RSum([i \in 1..n |-> RInt((i - 1) * (i - 1))])
    IN  RDiv(RSub(RMul(RInt(n), Sxy), RMul(Sx, Sy)),
             RSub(RMul(RInt(n), Sxx), RMul(Sx, Sx)))
Clamp(x) == RMax(RInt(0), RMin(RInt(100), x))
\* slope and returned score of every long candle list
TrendTable ==
    [c \in LongCandles |->
        [slope |-> IF Len(CoercedCloses(c)) >= 2 THEN Slope(CoercedCloses(c))
                   ELSE RInt(0),
         score |-> trend_score(Loaded(c).cache, Market0, CfgTimeframes[1])]]

\* C19: trend_score returns 'insufficient data' exactly when the key
\* yields fewer than 10 valid closes; otherwise clamp(50 + slope*1000, 0,
\* 100), which lies in [0, 100] and is not below the score of any input
\* with a smaller or equal slope
C19_TrendScore ==
    ret.op = "trend_score" =>
        LET cl == CoercedCloses(CalledBars) IN
        /\ ~ret.result.raised
        /\ ret.result.val = None <=> Len(cl) < TrendMin
        /\ Len(cl) >= TrendMin =>
              LET v == ret.result.val[1] IN
              /\ v = Clamp(RAdd(RInt(50), RMul(Slope(cl), RInt(1000))))
              /\ RLe(RInt(0), v) /\ RLe(v, RInt(100))
              /\ \A c \in LongCandles :
                    ( /\ ~TrendTable[c].score.raised
                      /\ TrendTable[c].score.val # None
                      /\ RLe(TrendTable[c].slope, Slope(cl)) ) =>
                        RLe(TrendTable[c].score.val[1], v)

\* ------------------------------------------------------------------------
\* refresh_all statement by statement
\* ------------------------------------------------------------------------
\* the requests and writes of a call over tfs, one timeframe after another
InOrder(tfs) ==
    [j \in 1..(3 * Len(tfs)) |->
        [what |-> <<"request", "done", "write">>[((j - 1) % 3) + 1],
         i |-> ((j - 1) \div 3) + 1,
         tf |-> tfs[((j - 1) \div 3) + 1]]]
\* the requests issued and not yet ended
InFlight ==
    {j \in DOMAIN events :
        /\ events[j].what = "request"
        /\ ~\E m \in DOMAIN events :
              m > j /\ events[m].what = "done" /\ events[m].i = events[j].i}

\* C20: within one refresh_all call the timeframes are taken in list
\* order, each fetch ends and its entry is written before the next fetch
\* starts, never two fetches are in flight, and the call returns only
\* after the last write
C20_OneTimeframeAtATime ==
    /\ Cardinality(InFlight) <= 1
    /\ Len(events) <= 3 * Len(frame.tfs)
    /\ events = SubSeq(InOrder(frame.tfs), 1, Len(events))
    /\ \A j \in DOMAIN events :
          events[j].what = "write" =>
              <<frame.market, events[j].tf>> \in DOMAIN cache
    /\ (pc = "idle" /\ lastCall.called) => events = InOrder(frame.tfs)

\* C20 witness: a call over two timeframes returned, the first fetch having
\* ended in a Transport failure (a timeout) and the second in bars
C20_Witness ==
    /\ pc = "idle"
    /\ lastCall.called
    /\ frame.tfs = CfgTimeframes
    /\ Len(events) = 6
    /\ hist[<<frame.market, CfgTimeframes[1]>>].kind = "transport"
    /\ hist[<<frame.market, CfgTimeframes[1]>>].at = lastCall.start + 1
    /\ hist[<<frame.market, CfgTimeframes[2]>>].kind = "ok"
    /\ hist[<<frame.market, CfgTimeframes[2]>>].at = lastCall.start + 2

\* the requests the call in progress has issued for position i of its list
RequestsOf(i) ==
    {j \in DOMAIN events : events[j].what = "request" /\ events[j].i = i}
\* the requests of the call in progress that have ended
Ended == {j \in DOMAIN events : events[j].what = "done"}

\* C21: one refresh_all call issues exactly one request for every listed
\* timeframe, whether the request ends in bars or in a failure: a position
\* of the list the loop has passed has one request, a position it has not
\* reached has none, the clock has advanced by one request time per ended
\* request, and a call that returned has issued as many requests as its
\* list is long; a further request for a failed timeframe needs a new call
C21_NoRetryInsideCycle ==
    /\ \A i \in 1..Len(frame.tfs) :
          Cardinality(RequestsOf(i)) =
              IF i < frame.i \/ (i = frame.i /\ pc # "request") THEN 1 ELSE 0
    /\ lastCall.called => now - lastCall.start = Cardinality(Ended)
    /\ (pc = "idle" /\ lastCall.called) =>
          /\ Cardinality(Ended) = Len(frame.tfs)
          /\ \A i \in 1..Len(frame.tfs) : Cardinality(RequestsOf(i)) = 1

\* C21 witness: a call over two timeframes returned after both of its
\* fetches failed (a timeout, then an exception leaving the fetcher), with
\* two requests issued in all
C21_Witness ==
    /\ pc = "idle"
    /\ lastCall.called
    /\ frame.tfs = CfgTimeframes
    /\ hist[<<frame.market, CfgTimeframes[1]>>].kind = "transport"
    /\ hist[<<frame.market, CfgTimeframes[1]>>].at = lastCall.start + 1
    /\ hist[<<frame.market, CfgTimeframes[2]>>].kind = "raise"
    /\ hist[<<frame.market, CfgTimeframes[2]>>].at = lastCall.start + 2
    /\ Cardinality({j \in DOMAIN events : events[j].what = "request"}) = 2

\* ------------------------------------------------------------------------
\* The two timer loops
\* ------------------------------------------------------------------------
\* C22: a refresh cycle runs to its end before any other callback: while
\* refresh_all is in progress the successor cycle is not yet scheduled and
\* the call in progress is the one cycle over cfg.timeframes, its requests
\* and writes in order; every UI tick has read the cache with no call in
\* progress, before the first write of a cycle or after its last
C22_CycleIsAtomic ==
    /\ pc # "idle" => loop.running = "data"
    /\ loop.running = "data" =>
          /\ "data" \notin loop.pending
          /\ frame.tfs = CfgTimeframes
          /\ events = SubSeq(InOrder(CfgTimeframes), 1, Len(events))
    /\ loop.tickSaw.pc = "idle"
    /\ loop.tickSaw.writes \in {0, Len(CfgTimeframes)}

\* C22 witness: a second cycle waits for the response of its second
\* timeframe, its first entry written, while the UI timer is pending; the
\* last tick ran after the two writes of the first cycle
C22_Witness ==
    /\ pc = "wait"
    /\ frame.i = 2
    /\ Written = 1
    /\ loop.running = "data"
    /\ "ui" \in loop.pending
    /\ loop.tickSaw.writes = Len(CfgTimeframes)
    /\ lastCall.start = Len(CfgTimeframes)

\* ------------------------------------------------------------------------
\* Order of the stored bars
\* ------------------------------------------------------------------------
\* the provider's responses (newest first) turned oldest-first
OldestFirst == {Reverse(d) : d \in Responses}

\* C23: the bars of every entry are oldest-first: an entry written by a
\* successful fetch holds the response reversed, an entry written after a
\* failed request holds the bars the key held before, element for element,
\* and whatever refreshes preceded, the stored bars are some response
\* reversed exactly once
C23_BarsOldestFirst ==
    \A k \in DOMAIN cache :
        /\ cache[k].candles \in OldestFirst
        /\ k \in DOMAIN hist
        /\ hist[k].kind = "ok" => cache[k].candles = Reverse(hist[k].data)
        /\ hist[k].kind \in FailureKinds =>
              cache[k].candles = IF hist[k].prev = None THEN << >>
                                 ELSE hist[k].prev[1].candles
        /\ (hist[k].kind \in FailureKinds /\ hist[k].good # None) =>
              cache[k].candles = hist[k].good[1].candles

\* C23 witness: the sixteen-bar response was stored reversed and two
\* failed requests of the same key have carried it over since
C23_Witness ==
    \E k \in DOMAIN cache :
        /\ cache[k].candles = Reverse(RespLong)
        /\ cache[k].candles # RespLong
        /\ hist[k].kind = "decode"
        /\ hist[k].prevKind = "transport"
        /\ hist[k].good # None
        /\ hist[k].at = 3

\* ------------------------------------------------------------------------
\* Endpoint resolution
\* ------------------------------------------------------------------------
\* the identifier tf is x with whitespace around it
Padded(tf, x) ==
    \E a \in 1..(Len(tf) + 1) :
        /\ a + Len(x) - 1 <= Len(tf)
        /\ SubSeq(tf, a, a + Len(x) - 1) = x
        /\ \A j \in 1..Len(tf) :
              (j < a \/ j > a + Len(x) - 1) => tf[j] \in Whitespace

ShapeOk(e) == e.fetch_ok = TRUE /\ e.fetch_error = NoneStr
ShapeFailed(e) ==
    /\ e.fetch_ok = FALSE
    /\ e.fetch_error \notin {NoneStr, ""}
    /\ e.candles = << >>

\* C25: every entry of the cache is either OK without a failure
\* description, or FAILED with a non-empty failure description and no
\* bars
C25_EntryShapes ==
    \A k \in DOMAIN cache :
        /\ ShapeOk(cache[k]) \/ ShapeFailed(cache[k])
        /\ ~(cache[k].fetch_ok = FALSE /\ cache[k].candles # << >>)
        /\ ~(cache[k].fetch_ok = TRUE /\ cache[k].fetch_error # NoneStr)

\* C25 witness: one key holds bars with status OK, and another key, which
\* held bars before, holds a FAILED entry written when an exception left
\* the fetcher
C25_Witness ==
    \E k, f \in DOMAIN cache :
        /\ k # f
        /\ ShapeOk(cache[k]) /\ cache[k].candles # << >>
        /\ ShapeFailed(cache[f])
        /\ hist[f].kind = "raise"
        /\ hist[f].prev # None
        /\ hist[f].prev[1].candles # << >>

\* ------------------------------------------------------------------------
\* Frame of refresh_all
\* ------------------------------------------------------------------------
\* the keys (market, t), t in tfs, of the call a step makes
CallKeys(call) == {<<call.market, call.tfs[i]>> : i \in DOMAIN call.tfs}

\* C26: a refresh_all(market, tfs) call leaves every entry of another
\* instrument and of a timeframe that is not in tfs as it was, creates no
\* entry outside the keys (market, t), t in tfs, and leaves the whole cache
\* unchanged when tfs is empty
C26_RefreshAllFrame ==
    [][ /\ \A k \in (DOMAIN cache \cup DOMAIN cache') \ CallKeys(lastCall') :
              /\ k \in DOMAIN cache
              /\ k \in DOMAIN cache'
              /\ cache'[k] = cache[k]
        /\ lastCall'.tfs = << >> => cache' = cache ]_vars

\* C26 witness: the first call stored "1" of the first instrument, the
\* last call refreshed only "D" of the second instrument: the entry of the
\* first instrument is the one written by the first request, and "1" of the
\* second instrument, which was not listed, has no entry
C26_Witness ==
    /\ lastCall.called
    /\ lastCall.market # Market0
    /\ lastCall.tfs = <<"D">>
    /\ lastCall.start = 1
    /\ DOMAIN cache = {<<Market0, "1">>, <<lastCall.market, "D">>}
    /\ cache[<<Market0, "1">>].last_refresh = 1
    /\ cache[<<Market0, "1">>].candles # << >>
    /\ cache[<<lastCall.market, "D">>].last_refresh = 2

\* ------------------------------------------------------------------------
\* The RSI labels
\* ------------------------------------------------------------------------
\* a step that changes neither the cache nor the selection and starts no
\* refresh: a UI tick
TickStep ==
    /\ cache' = cache
    /\ var_symbol' = var_symbol
    /\ var_tf' = var_tf
    /\ lastCall' = lastCall

\* C28: after a UI tick in which rsi of the selected key returned None, the
\* RSI label shows no number and the zone label no zone, so that nothing
\* computed on an earlier tick for another key or an older cache state
\* stays on display
C28_RsiBelongsToSelectedKey ==
    [][ (TickStep /\ rsi(cache, var_symbol, var_tf, 14) = Returned(None)) =>
            /\ var_rsi_value'.t # "num"
            /\ var_rsi_status' \notin {"OVERSOLD", "OVERBOUGHT", "NEUTRAL"}
      ]_vars

\* the selected key has no entry: the UI tick reads CACHE MISS
SelectedMiss == <<var_symbol, var_tf>> \notin DOMAIN cache
\* the run has room for one more refresh cycle
CycleFits == now + Len(CfgTimeframes) <= MaxCycles * Len(CfgTimeframes)

\* C27: under fair firing of the timers, every refresh cycle and every UI
\* tick leaves its successor scheduled (once __init__ has started the
\* loops, both timers are pending whenever no callback runs); the selected
\* key has an entry when a refresh cycle completes; a selected key without
\* an entry gets one as long as a cycle is in progress or the run has room
\* for another; and an entry, once written, stays
C27_SelectedKeyGetsEntry ==
    /\ []((loop.booted /\ loop.running = "none") =>
             {"data", "ui"} \subseteq loop.pending)
    /\ [][(loop.running = "data" /\ loop'.running = "none") =>
             <<var_symbol', var_tf'>> \in DOMAIN cache']_vars
    /\ [][DOMAIN cache \subseteq DOMAIN cache']_vars
    /\ (SelectedMiss /\ (loop.running = "data" \/ CycleFits))
           ~> ~SelectedMiss

\* C27 witness: the user selected the second instrument, a UI tick read
\* CACHE MISS for it, and the refresh cycle that followed has completed and
\* written the first entry of the selected key, both timers pending again
C27_Witness ==
    /\ var_symbol # Market0
    /\ var_data_status = "CACHE MISS"
    /\ loop.running = "none"
    /\ loop.pending = {"data", "ui"}
    /\ lastCall.market = var_symbol
    /\ lastCall.start = Len(CfgTimeframes)
    /\ <<var_symbol, var_tf>> \in DOMAIN cache
    /\ hist[<<var_symbol, var_tf>>].prev = None

====
